---- MODULE Spec2Model ----
(***************************************************************************)
(* Model of the storefront in src/frontend/src/App.js: the cart held in    *)
(* the App component's state, the checkout workflow and the admin order    *)
(* viewer.  Every event handler is one action (React runs a handler to     *)
(* completion and re-renders before the next event); an awaited request is *)
(* a message in flight, answered by a separate completion action.          *)
(*                                                                         *)
(* Conventions: indexes are 0-based as in the source (cart[i] of the code  *)
(* is cart[i + 1] here); prices are in hundredths (price 10.00 is 1000),   *)
(* and the catalogue's prices are multiples of 0.25, for which the         *)
(* double arithmetic of the code is exact.                                 *)
(***************************************************************************)
EXTENDS Integers, Sequences, FiniteSets, TLC

VARIABLES
    products,         \* useState([]), line 21
    cart,             \* useState([]), line 22
    orders,           \* useState([]), line 23
    isAdminOpen,      \* line 24
    isCartOpen,       \* line 25
    isCheckoutOpen,   \* line 26
    customerEmail,    \* line 27
    customerNote,     \* line 28
    loading,          \* line 29
    toast,            \* the notification emitted last through toast()
    postOrders,       \* POST {API}/orders requests awaiting their answer
    getOrders,        \* number of GET {API}/orders requests awaiting their answer
    getProducts,      \* number of GET {API}/products requests awaiting their answer
    lastCall,         \* the cart operation called directly last, with its arguments
    calls             \* log of the direct addToCart calls (kept by SpecAdd only)

vars == <<products, cart, orders, isAdminOpen, isCartOpen, isCheckoutOpen,
          customerEmail, customerNote, loading, toast, postOrders, getOrders,
          getProducts, lastCall, calls>>

(***************************************************************************)
(* Bounds of the model.                                                    *)
(***************************************************************************)
MaxCart == 2
MaxQty == 2
MaxCalls == 3
MaxUnits == 2
MaxFetches == 2

(***************************************************************************)
(* JSON values: what the backend serves and what addToCart receives as     *)
(* selectedOptions.  kv holds the members of an object in the order they  *)
(* were inserted; the order in which the object enumerates its keys is     *)
(* OwnPropertyKeys below.                                                  *)
(***************************************************************************)
JNull == [t |-> "null"]
JUndefined == [t |-> "undefined"]
JStr(s) == [t |-> "string", s |-> s]
JArr(xs) == [t |-> "array", xs |-> xs]
JObj(kv) == [t |-> "object", kv |-> kv]

\* JavaScript truthiness of a value (an empty string, null and undefined are falsy).
Truthy(v) ==
    CASE v.t = "null" -> FALSE
      [] v.t = "undefined" -> FALSE
      [] v.t = "string" -> v.s # ""
      [] OTHER -> TRUE

\* obj?.key : the value of a property, undefined when absent or when obj is nullish.
GetProp(obj, key) ==
    IF obj.t # "object" THEN JUndefined
    ELSE IF \E i \in 1..Len(obj.kv) : obj.kv[i].k = key
         THEN obj.kv[CHOOSE i \in 1..Len(obj.kv) : obj.kv[i].k = key].v
         ELSE JUndefined

\* The text JSON.stringify writes for one character of a string: a double
\* quote and a backslash are escaped with a backslash, a line feed, a tab, a
\* carriage return and a form feed are written as their two-character
\* escapes.  (The other control characters, written \uXXXX by the code, are
\* not characters of the strings of this model.)
EscapeChar(c) ==
    CASE c = "\"" -> "\\\""
      [] c = "\\" -> "\\\\"
      [] c = "\n" -> "\\n"
      [] c = "\t" -> "\\t"
      [] c = "\r" -> "\\r"
      [] c = "\f" -> "\\f"
      [] OTHER -> c

\* The characters of s from position i on, each escaped.
RECURSIVE EscapeString(_, _)
EscapeString(s, i) ==
    IF i > Len(s) THEN ""
    ELSE EscapeChar(SubSeq(s, i, i)) \o EscapeString(s, i + 1)

\* The characters JSON.stringify escapes, of those a string of this model holds.
EscapedChars == {"\"", "\\", "\n", "\t", "\r", "\f"}

\* A string as JSON.stringify writes it: escaped, between double quotes.  A
\* string that holds no character to escape is written as it is.
QuoteString(s) ==
    IF \A i \in 1..Len(s) : SubSeq(s, i, i) \notin EscapedChars
    THEN "\"" \o s \o "\""
    ELSE "\"" \o EscapeString(s, 1) \o "\""

\* The value of a decimal digit, -1 for any other character.
Digit(c) ==
    CASE c = "0" -> 0 [] c = "1" -> 1 [] c = "2" -> 2 [] c = "3" -> 3
      [] c = "4" -> 4 [] c = "5" -> 5 [] c = "6" -> 6 [] c = "7" -> 7
      [] c = "8" -> 8 [] c = "9" -> 9 [] OTHER -> -1

\* Two strings of digits of the same length: a is before b, digit by digit
\* from position i on.
RECURSIVE DigitsLess(_, _, _)
DigitsLess(a, b, i) ==
    IF i > Len(a) THEN FALSE
    ELSE LET x == Digit(SubSeq(a, i, i))
             y == Digit(SubSeq(b, i, i))
         IN IF x = y THEN DigitsLess(a, b, i + 1) ELSE x < y

\* Two canonical numeric strings: the number a is less than the number b.
IndexLess(a, b) ==
    \/ Len(a) < Len(b)
    \/ Len(a) = Len(b) /\ DigitsLess(a, b, 1)

\* A key that is an array index: the canonical decimal text of an integer
\* from 0 to 2^32 - 2 (no sign, no leading zero).
IsArrayIndex(k) ==
    /\ Len(k) \in 1..10
    /\ \A i \in 1..Len(k) : Digit(SubSeq(k, i, i)) >= 0
    /\ Len(k) > 1 => SubSeq(k, 1, 1) # "0"
    /\ ~IndexLess("4294967294", k)

IsIndexMember(m) == IsArrayIndex(m.k)
IsNameMember(m) == ~IsArrayIndex(m.k)

\* Members with array index keys, in ascending order of the index.
RECURSIVE SortByIndex(_)
SortByIndex(ms) ==
    IF ms = <<>> THEN <<>>
    ELSE LET i == CHOOSE i \in 1..Len(ms) :
                      \A j \in 1..Len(ms) : ~IndexLess(ms[j].k, ms[i].k)
         IN <<ms[i]>> \o SortByIndex(SubSeq(ms, 1, i - 1) \o SubSeq(ms, i + 1, Len(ms)))

\* The members of an object in the order it enumerates its own keys: the
\* array index keys first, ascending, then the other keys in insertion order.
OwnPropertyKeys(kv) ==
    IF \A i \in 1..Len(kv) : IsNameMember(kv[i]) THEN kv
    ELSE SortByIndex(SelectSeq(kv, IsIndexMember)) \o SelectSeq(kv, IsNameMember)

RECURSIVE JSONstringify(_)
RECURSIVE WriteMembers(_, _, _)
RECURSIVE StringifyElements(_, _)

\* The members ms, in the order of enumeration, from position i on; a member
\* whose value is undefined is left out.  first: no member has been written
\* yet.
WriteMembers(ms, i, first) ==
    IF i > Len(ms) THEN ""
    ELSE IF ms[i].v.t = "undefined" THEN WriteMembers(ms, i + 1, first)
    ELSE (IF first THEN "" ELSE ",") \o QuoteString(ms[i].k) \o ":"
           \o JSONstringify(ms[i].v) \o WriteMembers(ms, i + 1, FALSE)

\* The members of the object of insertion order kv, from position i of its
\* key enumeration on.
StringifyMembers(kv, i, first) == WriteMembers(OwnPropertyKeys(kv), i, first)

\* The elements of an array from position i on; undefined is written null.
StringifyElements(xs, i) ==
    IF i > Len(xs) THEN ""
    ELSE (IF i > 1 THEN "," ELSE "")
           \o (IF xs[i].t = "undefined" THEN "null" ELSE JSONstringify(xs[i]))
           \o StringifyElements(xs, i + 1)

\* JSON.stringify(v) for a value that is not undefined.
JSONstringify(v) ==
    CASE v.t = "null" -> "null"
      [] v.t = "string" -> QuoteString(v.s)
      [] v.t = "array" -> "[" \o StringifyElements(v.xs, 1) \o "]"
      [] v.t = "object" -> "{" \o StringifyMembers(v.kv, 1, TRUE) \o "}"

(***************************************************************************)
(* The catalogue the backend serves on GET {API}/products.                 *)
(***************************************************************************)
StyleX == JObj(<<[k |-> "name", v |-> JStr("X")], [k |-> "description", v |-> JStr("dx")]>>)
StyleY == JObj(<<[k |-> "name", v |-> JStr("Y")], [k |-> "description", v |-> JStr("dy")]>>)
\* The same style as StyleX with its keys in the other order.
StyleXReordered == JObj(<<[k |-> "description", v |-> JStr("dx")], [k |-> "name", v |-> JStr("X")]>>)

ProductA ==
    [id |-> "A", name |-> "Product A", price |-> 1000, category |-> "art",
     options |-> JObj(<<[k |-> "styles", v |-> JArr(<<StyleX, StyleY>>)]>>)]
ProductB ==
    [id |-> "B", name |-> "Product B", price |-> 550, category |-> "design",
     options |-> JNull]

Catalogue == <<ProductA, ProductB>>

\* The selectedOptions values addToCart is called with for a product: none,
\* or one of the product's styles, its keys in either order.
OptionInputs(product) ==
    {JNull} \cup
    (IF product.category = "art"
     THEN {JObj(<<[k |-> "style", v |-> StyleX]>>),
           JObj(<<[k |-> "style", v |-> StyleXReordered]>>),
           JObj(<<[k |-> "style", v |-> StyleY]>>)}
     ELSE {})

\* Two styles whose texts differ only by the escaping of the double quotes
\* held in the name of the second: a style of name a and description b, and
\* a style with the one key name, holding a","description":"b.
StyleAB == JObj(<<[k |-> "name", v |-> JStr("a")], [k |-> "description", v |-> JStr("b")]>>)
StyleQuoted == JObj(<<[k |-> "name", v |-> JStr("a\",\"description\":\"b")]>>)

\* Two objects with the keys b and 1, inserted in either order: both
\* enumerate the key 1 first.
OptionsB1 == JObj(<<[k |-> "b", v |-> JStr("x")], [k |-> "1", v |-> JStr("y")]>>)
Options1B == JObj(<<[k |-> "1", v |-> JStr("y")], [k |-> "b", v |-> JStr("x")]>>)

\* The selectedOptions values of the logged calls: those above and, for an
\* art product, the two styles that only the escaping tells apart and the
\* two objects with an array index key.
LoggedOptionInputs(product) ==
    OptionInputs(product) \cup
    (IF product.category = "art"
     THEN {JObj(<<[k |-> "style", v |-> StyleAB]>>),
           JObj(<<[k |-> "style", v |-> StyleQuoted]>>),
           OptionsB1, Options1B}
     ELSE {})

Range(s) == {s[i] : i \in 1..Len(s)}

(***************************************************************************)
(* Notifications.                                                          *)
(***************************************************************************)
NoToast == [title |-> "", description |-> "", variant |-> ""]
ToastAdded(product) ==
    [title |-> "Added to cart",
     description |-> product.name \o " has been added to your cart",
     variant |-> "default"]
ToastEmailRequired ==
    [title |-> "Email required", description |-> "Please enter your email address",
     variant |-> "destructive"]
ToastCartEmpty ==
    [title |-> "Cart is empty",
     description |-> "Please add items to your cart before checkout",
     variant |-> "destructive"]
ToastOrderPlaced ==
    [title |-> "Order placed successfully!",
     description |-> "We will send you the invoice in your email shortly, and will be in touch with you via email.",
     variant |-> "default"]
ToastOrderFailed ==
    [title |-> "Error", description |-> "Failed to place order. Please try again.",
     variant |-> "destructive"]
ToastOrdersFailed ==
    [title |-> "Error", description |-> "Failed to load orders", variant |-> "destructive"]
ToastProductsFailed ==
    [title |-> "Error", description |-> "Failed to load products", variant |-> "destructive"]

(***************************************************************************)
(* The cart operations, as functions of the cart the handler closes over.  *)
(***************************************************************************)
\* The test without its comparison of the options.
MatchesItemByProductOnly(item, product, selectedOptions) ==
    item.product_id = product.id

\* The test of lines 66-67 and 72.
MatchesItem(item, product, selectedOptions) ==
    /\ item.product_id = product.id
    /\ JSONstringify(item.selected_options) = JSONstringify(selectedOptions)

NewItem(product, selectedOptions) ==
    [product_id |-> product.id, product_name |-> product.name, quantity |-> 1,
     price |-> product.price, selected_options |-> selectedOptions]

\* addToCart without the lookup of an existing line item: always appends.
addToCartAlwaysAppends(c, product, selectedOptions) ==
    Append(c, NewItem(product, selectedOptions))

\* The cart addToCart(product, selectedOptions) sets.
addToCart(c, product, selectedOptions) ==
    IF \E i \in 1..Len(c) : MatchesItem(c[i], product, selectedOptions)
    THEN [i \in 1..Len(c) |->
            IF MatchesItem(c[i], product, selectedOptions)
            THEN [c[i] EXCEPT !.quantity = @ + 1]
            ELSE c[i]]
    ELSE Append(c, NewItem(product, selectedOptions))

\* cart.filter((_, i) => i !== index)
RECURSIVE FilterNotIndex(_, _, _)
FilterNotIndex(c, index, i) ==
    IF i >= Len(c) THEN <<>>
    ELSE (IF i # index THEN <<c[i + 1]>> ELSE <<>>) \o FilterNotIndex(c, index, i + 1)

removeFromCart(c, index) == FilterNotIndex(c, index, 0)

\* updateQuantity without its branch for a quantity of zero.
updateQuantityKeepsZero(c, index, quantity) ==
    [i \in 1..Len(c) |->
        IF i - 1 = index THEN [c[i] EXCEPT !.quantity = quantity] ELSE c[i]]

updateQuantity(c, index, quantity) ==
    IF quantity = 0 THEN removeFromCart(c, index)
    ELSE [i \in 1..Len(c) |->
            IF i - 1 = index THEN [c[i] EXCEPT !.quantity = quantity] ELSE c[i]]

\* The reduction adding each unit price once, whatever the quantity.
RECURSIVE ReduceIgnoringQuantity(_, _, _)
ReduceIgnoringQuantity(c, i, total) ==
    IF i > Len(c) THEN total
    ELSE ReduceIgnoringQuantity(c, i + 1, total + c[i].price)

\* cart.reduce((total, item) => total + (item.price * item.quantity), 0)
RECURSIVE Reduce(_, _, _)
Reduce(c, i, total) ==
    IF i > Len(c) THEN total
    ELSE Reduce(c, i + 1, total + (c[i].price * c[i].quantity))

getCartTotal(c) == Reduce(c, 1, 0)

\* ProductCard.handleAddToCart: the options handed to addToCart.
FindStyle(styles, selectedStyle) ==
    IF styles.t # "array" THEN JUndefined
    ELSE IF \E i \in 1..Len(styles.xs) : GetProp(styles.xs[i], "name") = JStr(selectedStyle)
         THEN styles.xs[CHOOSE i \in 1..Len(styles.xs) :
                 /\ GetProp(styles.xs[i], "name") = JStr(selectedStyle)
                 /\ \A j \in 1..(i - 1) : GetProp(styles.xs[j], "name") # JStr(selectedStyle)]
         ELSE JUndefined

handleAddToCartOptions(product, selectedStyle) ==
    IF product.category = "art" /\ selectedStyle # ""
    THEN JObj(<<[k |-> "style",
                 v |-> FindStyle(GetProp(product.options, "styles"), selectedStyle)]>>)
    ELSE IF Truthy(product.options) THEN product.options
    ELSE JNull

\* The values the style Select of a product card offers (lines 209-225).
StyleNames(product) ==
    LET styles == GetProp(product.options, "styles")
    IN IF product.category = "art" /\ styles.t = "array"
       THEN {GetProp(styles.xs[i], "name").s : i \in 1..Len(styles.xs)}
       ELSE {}

\* disabled={product.category === 'art' && !selectedStyle}
AddDisabled(product, selectedStyle) == product.category = "art" /\ selectedStyle = ""

(***************************************************************************)
(* Inputs of the handlers.                                                 *)
(***************************************************************************)
EmailInputs == {"", "a@b.c"}
NoteInputs == {"", "note"}
\* Indexes handed to removeFromCart and updateQuantity: in range and out of range.
IndexInputs(c) == -1..Len(c)
\* Quantities handed to updateQuantity (negative ones are not validated).
QuantityInputs == -1..MaxQty
\* The order lists the backend may answer GET {API}/orders with.
Order1 == [id |-> "order-0001", customer_email |-> "a@b.c", customer_note |-> "",
           items |-> <<NewItem(ProductB, JNull)>>, total_amount |-> 550]
Order2 == [id |-> "order-0002", customer_email |-> "a@b.c", customer_note |-> "note",
           items |-> <<NewItem(ProductA, JObj(<<[k |-> "style", v |-> StyleX]>>))>>,
           total_amount |-> 1000]
OrderLists == {<<>>, <<Order1>>, <<Order1, Order2>>}

\* The model keeps carts within its bounds.
WithinBounds(c) ==
    /\ Len(c) <= MaxCart
    /\ \A i \in 1..Len(c) : c[i].quantity <= MaxQty /\ c[i].quantity >= -1

(***************************************************************************)
(* Initial state: the component has mounted and its effect (lines 32-34)   *)
(* has sent the request for the products.                                  *)
(***************************************************************************)
Init ==
    /\ products = <<>>
    /\ cart = <<>>
    /\ orders = <<>>
    /\ isAdminOpen = FALSE
    /\ isCartOpen = FALSE
    /\ isCheckoutOpen = FALSE
    /\ customerEmail = ""
    /\ customerNote = ""
    /\ loading = FALSE
    /\ toast = NoToast
    /\ postOrders = <<>>
    /\ getOrders = 0
    /\ getProducts = 1
    /\ lastCall = [op |-> "none"]
    /\ calls = <<>>

(***************************************************************************)
(* The cart operations called directly, with any arguments.                *)
(***************************************************************************)
AddToCartCall ==
    \E i \in 1..Len(Catalogue) : \E o \in OptionInputs(Catalogue[i]) :
        /\ WithinBounds(addToCart(cart, Catalogue[i], o))
        /\ cart' = addToCart(cart, Catalogue[i], o)
        /\ toast' = ToastAdded(Catalogue[i])
        /\ lastCall' = [op |-> "addToCart"]
        /\ UNCHANGED <<products, orders, isAdminOpen, isCartOpen, isCheckoutOpen,
                       customerEmail, customerNote, loading, postOrders, getOrders,
                       getProducts, calls>>

RemoveFromCartCall ==
    \E index \in IndexInputs(cart) :
        /\ cart' = removeFromCart(cart, index)
        /\ lastCall' = [op |-> "removeFromCart", index |-> index]
        /\ UNCHANGED <<products, orders, isAdminOpen, isCartOpen, isCheckoutOpen,
                       customerEmail, customerNote, loading, toast, postOrders,
                       getOrders, getProducts, calls>>

UpdateQuantityCall ==
    \E index \in IndexInputs(cart), quantity \in QuantityInputs :
        /\ cart' = updateQuantity(cart, index, quantity)
        /\ lastCall' = [op |-> "updateQuantity", index |-> index, quantity |-> quantity]
        /\ UNCHANGED <<products, orders, isAdminOpen, isCartOpen, isCheckoutOpen,
                       customerEmail, customerNote, loading, toast, postOrders,
                       getOrders, getProducts, calls>>

NextCart == AddToCartCall \/ RemoveFromCartCall \/ UpdateQuantityCall

\* The cart operations alone, called in any order with any arguments.
SpecCart == Init /\ [][NextCart]_vars

(***************************************************************************)
(* addToCart alone, from the empty cart, with the log of its calls.        *)
(***************************************************************************)
AddToCartLogged ==
    \E i \in 1..Len(Catalogue) : \E o \in LoggedOptionInputs(Catalogue[i]) :
        /\ Len(calls) < MaxCalls
        /\ cart' = addToCart(cart, Catalogue[i], o)
        /\ toast' = ToastAdded(Catalogue[i])
        /\ lastCall' = [op |-> "addToCart"]
        /\ calls' = Append(calls, [product |-> Catalogue[i], options |-> o])
        /\ UNCHANGED <<products, orders, isAdminOpen, isCartOpen, isCheckoutOpen,
                       customerEmail, customerNote, loading, postOrders, getOrders,
                       getProducts>>

NextAdd == AddToCartLogged

SpecAdd == Init /\ [][NextAdd]_vars

(***************************************************************************)
(* The storefront as the user drives it: the product cards, the cart       *)
(* drawer, the checkout dialog and the answers of the backend.  What a     *)
(* dialog shows can be used only while the dialog is open.                 *)
(***************************************************************************)
RECURSIVE Units(_, _)
Units(c, i) == IF i > Len(c) THEN 0 ELSE c[i].quantity + Units(c, i + 1)

\* The model keeps the number of units in the cart within its bound.
WithinUnits(c) == Units(c, 1) <= MaxUnits

harness == <<lastCall, calls>>

\* fetchProducts, from its answer on (lines 38-47).
FetchProductsSucceeds ==
    /\ getProducts > 0
    /\ getProducts' = getProducts - 1
    /\ products' = Catalogue
    /\ UNCHANGED <<cart, orders, isAdminOpen, isCartOpen, isCheckoutOpen,
                   customerEmail, customerNote, loading, toast, postOrders,
                   getOrders, harness>>

FetchProductsFails ==
    /\ getProducts > 0
    /\ getProducts' = getProducts - 1
    /\ toast' = ToastProductsFailed
    /\ UNCHANGED <<products, cart, orders, isAdminOpen, isCartOpen, isCheckoutOpen,
                   customerEmail, customerNote, loading, postOrders, getOrders,
                   harness>>

\* The "Add to Cart" button of a product card (lines 163-172, 233-236), with
\* the style the card's Select holds.
ProductCardAddClick ==
    \E i \in 1..Len(products), selectedStyle \in StyleNames(Catalogue[1]) \cup {""} :
        LET product == products[i]
            options == handleAddToCartOptions(product, selectedStyle)
        IN /\ selectedStyle \in StyleNames(product) \cup {""}
           /\ ~AddDisabled(product, selectedStyle)
           /\ WithinUnits(addToCart(cart, product, options))
           /\ cart' = addToCart(cart, product, options)
           /\ toast' = ToastAdded(product)
           /\ UNCHANGED <<products, orders, isAdminOpen, isCartOpen, isCheckoutOpen,
                          customerEmail, customerNote, loading, postOrders,
                          getOrders, getProducts, harness>>

\* The "-" button of a line of the cart drawer (line 273).
MinusClick ==
    \E index \in 0..(Len(cart) - 1) :
        /\ isCartOpen
        /\ cart' = updateQuantity(cart, index, cart[index + 1].quantity - 1)
        /\ UNCHANGED <<products, orders, isAdminOpen, isCartOpen, isCheckoutOpen,
                       customerEmail, customerNote, loading, toast, postOrders,
                       getOrders, getProducts, harness>>

\* The "+" button of a line of the cart drawer (line 281).
PlusClick ==
    \E index \in 0..(Len(cart) - 1) :
        /\ isCartOpen
        /\ WithinUnits(updateQuantity(cart, index, cart[index + 1].quantity + 1))
        /\ cart' = updateQuantity(cart, index, cart[index + 1].quantity + 1)
        /\ UNCHANGED <<products, orders, isAdminOpen, isCartOpen, isCheckoutOpen,
                       customerEmail, customerNote, loading, toast, postOrders,
                       getOrders, getProducts, harness>>

\* The cart button of the header (line 453).
OpenCartClick ==
    /\ isCartOpen' = TRUE
    /\ UNCHANGED <<products, cart, orders, isAdminOpen, isCheckoutOpen,
                   customerEmail, customerNote, loading, toast, postOrders,
                   getOrders, getProducts, harness>>

\* onOpenChange of the cart drawer (line 247).
CartOnOpenChange ==
    \E open \in BOOLEAN :
        /\ isCartOpen' = open
        /\ UNCHANGED <<products, cart, orders, isAdminOpen, isCheckoutOpen,
                       customerEmail, customerNote, loading, toast, postOrders,
                       getOrders, getProducts, harness>>

\* "Proceed to Checkout", shown while the cart is not empty (lines 291-304).
ProceedToCheckoutClick ==
    /\ isCartOpen
    /\ Len(cart) > 0
    /\ isCartOpen' = FALSE
    /\ isCheckoutOpen' = TRUE
    /\ UNCHANGED <<products, cart, orders, isAdminOpen, customerEmail,
                   customerNote, loading, toast, postOrders, getOrders,
                   getProducts, harness>>

\* onOpenChange of the checkout dialog (line 312).
CheckoutOnOpenChange ==
    \E open \in BOOLEAN :
        /\ isCheckoutOpen' = open
        /\ UNCHANGED <<products, cart, orders, isAdminOpen, isCartOpen,
                       customerEmail, customerNote, loading, toast, postOrders,
                       getOrders, getProducts, harness>>

\* onChange of the email field (line 328).
EmailChange ==
    \E value \in EmailInputs :
        /\ isCheckoutOpen
        /\ customerEmail' = value
        /\ UNCHANGED <<products, cart, orders, isAdminOpen, isCartOpen,
                       isCheckoutOpen, customerNote, loading, toast, postOrders,
                       getOrders, getProducts, harness>>

\* onChange of the note field (line 338).
NoteChange ==
    \E value \in NoteInputs :
        /\ isCheckoutOpen
        /\ customerNote' = value
        /\ UNCHANGED <<products, cart, orders, isAdminOpen, isCartOpen,
                       isCheckoutOpen, customerEmail, loading, toast, postOrders,
                       getOrders, getProducts, harness>>

\* The guards of handleCheckout without the test of the cart.
handleCheckoutGuardEmailOnly(email, c) ==
    IF email = "" THEN ToastEmailRequired ELSE NoToast

\* The guards of handleCheckout (lines 109-125): the notification of the
\* guard that rejects, NoToast when both pass.
handleCheckoutGuard(email, c) ==
    IF email = "" THEN ToastEmailRequired
    ELSE IF Len(c) = 0 THEN ToastCartEmpty
    ELSE NoToast

\* orderData (lines 129-133).
OrderData(email, note, c) ==
    [customer_email |-> email, customer_note |-> note, items |-> c]

\* The "Place Order" button never disabled.
PlaceOrderNeverDisabled == FALSE

\* disabled={loading} (line 360).
PlaceOrderDisabled == loading

\* The "Place Order" button: handleCheckout up to its await (lines 108-135).
PlaceOrderClick ==
    /\ isCheckoutOpen
    /\ ~PlaceOrderDisabled
    /\ IF handleCheckoutGuard(customerEmail, cart) # NoToast
       THEN /\ toast' = handleCheckoutGuard(customerEmail, cart)
            /\ UNCHANGED <<loading, postOrders>>
       ELSE /\ loading' = TRUE
            /\ postOrders' =
                   Append(postOrders, OrderData(customerEmail, customerNote, cart))
            /\ UNCHANGED toast
    /\ UNCHANGED <<products, cart, orders, isAdminOpen, isCartOpen, isCheckoutOpen,
                   customerEmail, customerNote, getOrders, getProducts, harness>>

\* The sequence s without its element at position k.
Without(s, k) == SubSeq(s, 1, k - 1) \o SubSeq(s, k + 1, Len(s))

\* handleCheckout after its await when the backend accepts the order, with
\* the customer email left as it is.
PostOrderSucceedsKeepsEmail ==
    \E k \in 1..Len(postOrders) :
        /\ postOrders' = Without(postOrders, k)
        /\ cart' = <<>>
        /\ customerNote' = ""
        /\ isCheckoutOpen' = FALSE
        /\ toast' = ToastOrderPlaced
        /\ loading' = FALSE
        /\ UNCHANGED <<products, orders, isAdminOpen, isCartOpen, customerEmail,
                       getOrders, getProducts, harness>>

\* handleCheckout after its await when the backend accepts the order
\* (lines 137-147, 156).
PostOrderSucceeds ==
    \E k \in 1..Len(postOrders) :
        /\ postOrders' = Without(postOrders, k)
        /\ cart' = <<>>
        /\ customerEmail' = ""
        /\ customerNote' = ""
        /\ isCheckoutOpen' = FALSE
        /\ toast' = ToastOrderPlaced
        /\ loading' = FALSE
        /\ UNCHANGED <<products, orders, isAdminOpen, isCartOpen, getOrders,
                       getProducts, harness>>

\* handleCheckout after its await when the request fails, clearing the cart.
PostOrderFailsClearsCart ==
    \E k \in 1..Len(postOrders) :
        /\ postOrders' = Without(postOrders, k)
        /\ cart' = <<>>
        /\ toast' = ToastOrderFailed
        /\ loading' = FALSE
        /\ UNCHANGED <<products, orders, isAdminOpen, isCartOpen,
                       isCheckoutOpen, customerEmail, customerNote, getOrders,
                       getProducts, harness>>

\* handleCheckout after its await when the request fails, without the
\* finally block that resets the loading flag.
PostOrderFailsKeepsLoading ==
    \E k \in 1..Len(postOrders) :
        /\ postOrders' = Without(postOrders, k)
        /\ toast' = ToastOrderFailed
        /\ UNCHANGED <<products, cart, orders, isAdminOpen, isCartOpen,
                       isCheckoutOpen, customerEmail, customerNote, loading,
                       getOrders, getProducts, harness>>

\* handleCheckout after its await when the request fails (lines 148-157).
PostOrderFails ==
    \E k \in 1..Len(postOrders) :
        /\ postOrders' = Without(postOrders, k)
        /\ toast' = ToastOrderFailed
        /\ loading' = FALSE
        /\ UNCHANGED <<products, cart, orders, isAdminOpen, isCartOpen,
                       isCheckoutOpen, customerEmail, customerNote, getOrders,
                       getProducts, harness>>

NextStore ==
    \/ FetchProductsSucceeds
    \/ FetchProductsFails
    \/ ProductCardAddClick
    \/ MinusClick
    \/ PlusClick
    \/ OpenCartClick
    \/ CartOnOpenChange
    \/ ProceedToCheckoutClick
    \/ CheckoutOnOpenChange
    \/ EmailChange
    \/ NoteChange
    \/ PlaceOrderClick
    \/ PostOrderSucceeds
    \/ PostOrderFails

\* The shop: catalogue, cart drawer and checkout.
SpecStore == Init /\ [][NextStore]_vars

\* The shop with a backend that answers every order it is sent: the
\* continuation of handleCheckout runs once the awaited request has settled.
SpecStoreFair == SpecStore /\ WF_vars(PostOrderSucceeds \/ PostOrderFails)

(***************************************************************************)
(* The admin order viewer.                                                 *)
(***************************************************************************)
\* The admin button of the header (line 465).
AdminButtonClick ==
    /\ isAdminOpen' = TRUE
    /\ UNCHANGED <<products, cart, orders, isCartOpen, isCheckoutOpen,
                   customerEmail, customerNote, loading, toast, postOrders,
                   getOrders, getProducts, harness>>

\* onOpenChange of the admin dialog (lines 371-374): fetchOrders up to its
\* await when the dialog opens.
AdminOnOpenChange ==
    \E open \in BOOLEAN :
        /\ isAdminOpen' = open
        /\ IF open
           THEN /\ getOrders < MaxFetches
                /\ getOrders' = getOrders + 1
           ELSE UNCHANGED getOrders
        /\ UNCHANGED <<products, cart, orders, isCartOpen, isCheckoutOpen,
                       customerEmail, customerNote, loading, toast, postOrders,
                       getProducts, harness>>

\* fetchOrders after its await when the backend answers (line 53).
FetchOrdersSucceeds ==
    \E data \in OrderLists :
        /\ getOrders > 0
        /\ getOrders' = getOrders - 1
        /\ orders' = data
        /\ UNCHANGED <<products, cart, isAdminOpen, isCartOpen, isCheckoutOpen,
                       customerEmail, customerNote, loading, toast, postOrders,
                       getProducts, harness>>

\* fetchOrders after its await when the request fails, emptying the list.
FetchOrdersFailsClearsOrders ==
    /\ getOrders > 0
    /\ getOrders' = getOrders - 1
    /\ orders' = <<>>
    /\ toast' = ToastOrdersFailed
    /\ UNCHANGED <<products, cart, isAdminOpen, isCartOpen, isCheckoutOpen,
                   customerEmail, customerNote, loading, postOrders, getProducts,
                   harness>>

\* fetchOrders after its await when the request fails (lines 54-61).
FetchOrdersFails ==
    /\ getOrders > 0
    /\ getOrders' = getOrders - 1
    /\ toast' = ToastOrdersFailed
    /\ UNCHANGED <<products, cart, orders, isAdminOpen, isCartOpen,
                   isCheckoutOpen, customerEmail, customerNote, loading,
                   postOrders, getProducts, harness>>

NextAdmin ==
    \/ FetchProductsSucceeds
    \/ FetchProductsFails
    \/ AdminButtonClick
    \/ AdminOnOpenChange
    \/ FetchOrdersSucceeds
    \/ FetchOrdersFails

\* The requests for lists: the products on mount, the orders of the admin
\* viewer.
SpecAdmin == Init /\ [][NextAdmin]_vars

(***************************************************************************)
(* The whole application.                                                  *)
(***************************************************************************)
Next == NextStore \/ NextAdmin

Spec == Init /\ [][Next]_vars

(***************************************************************************)
(* Properties of the cart.                                                 *)
(***************************************************************************)
\* Equality of two JSON values by deep value: the order of an object's keys
\* does not count.
RECURSIVE DeepEqual(_, _)
DeepEqual(a, b) ==
    /\ a.t = b.t
    /\ CASE a.t = "string" -> a.s = b.s
         [] a.t = "array" ->
                /\ Len(a.xs) = Len(b.xs)
                /\ \A i \in 1..Len(a.xs) : DeepEqual(a.xs[i], b.xs[i])
         [] a.t = "object" ->
                /\ {a.kv[i].k : i \in 1..Len(a.kv)} = {b.kv[i].k : i \in 1..Len(b.kv)}
                /\ \A i \in 1..Len(a.kv) :
                       DeepEqual(a.kv[i].v, GetProp(b, a.kv[i].k))
         [] OTHER -> TRUE

\* The state of App other than the cart and the notification.
otherThanCart == <<products, orders, isAdminOpen, isCartOpen, isCheckoutOpen,
                   customerEmail, customerNote, loading, postOrders, getOrders,
                   getProducts>>

\* C1: no two line items of the cart have the same product identifier and
\* selected_options that are equal by deep value.
C1_CartUnique ==
    \A i, j \in 1..Len(cart) :
        i # j => ~(/\ cart[i].product_id = cart[j].product_id
                   /\ DeepEqual(cart[i].selected_options, cart[j].selected_options))

\* C2: after n >= 1 addToCart calls with the same product and identical
\* options, from the empty cart, the cart is one line item of quantity n.
C2_SameCallsMerge ==
    (/\ Len(calls) >= 1
     /\ \A i \in 1..Len(calls) : calls[i] = calls[1])
    => /\ Len(cart) = 1
       /\ cart[1] = [NewItem(calls[1].product, calls[1].options)
                        EXCEPT !.quantity = Len(calls)]

C2_Witness ==
    /\ Len(calls) = 3
    /\ \A i \in 1..Len(calls) : calls[i] = calls[1]
    /\ calls[1].options # JNull
    /\ Len(cart) = 1
    /\ cart[1].quantity = 3

\* C3: after two addToCart calls with the same product and options that
\* differ by deep value, from the empty cart, the cart is two line items of
\* quantity one, in the order of the calls.
C3_DifferentOptionsSplit ==
    (/\ Len(calls) = 2
     /\ calls[1].product = calls[2].product
     /\ ~DeepEqual(calls[1].options, calls[2].options))
    => cart = <<NewItem(calls[1].product, calls[1].options),
                NewItem(calls[2].product, calls[2].options)>>

C3_Witness ==
    /\ Len(calls) = 2
    /\ calls[1].product = calls[2].product
    /\ calls[1].options = JNull
    /\ calls[2].options # JNull
    /\ Len(cart) = 2
    /\ cart[1].selected_options = JNull
    /\ cart[2].selected_options # JNull

\* The sum of price x quantity over the line items at the positions S.
RECURSIVE LineSum(_, _)
LineSum(c, S) ==
    IF S = {} THEN 0
    ELSE LET i == CHOOSE x \in S : TRUE
         IN (c[i].price * c[i].quantity) + LineSum(c, S \ {i})

ScenarioCart ==
    /\ Len(cart) = 2
    /\ cart[1].product_id = "A" /\ cart[1].price = 1000 /\ cart[1].quantity = 2
    /\ cart[2].product_id = "B" /\ cart[2].price = 550 /\ cart[2].quantity = 1

\* C4: getCartTotal() is the sum over the current line items of unit price x
\* quantity; the cart of A (10.00, 2) and B (5.50, 1) totals 25.50.
C4_TotalIsSum ==
    /\ getCartTotal(cart) = LineSum(cart, 1..Len(cart))
    /\ ScenarioCart => getCartTotal(cart) = 2550

C4_Witness == ScenarioCart /\ lastCall.op = "updateQuantity"

\* The cart without the line item at the 0-based position index, the others
\* in their order; the cart itself when index is out of range.
RemoveAt(c, index) ==
    IF index \in 0..(Len(c) - 1)
    THEN SubSeq(c, 1, index) \o SubSeq(c, index + 2, Len(c))
    ELSE c

\* C5: updateQuantity(i, 0) leaves the state removeFromCart(i) leaves: the
\* line item at i is removed, the others keep their contents and order, and
\* nothing else changes.
C5_UpdateToZeroRemoves ==
    [][(lastCall'.op = "updateQuantity" /\ lastCall'.quantity = 0)
        => /\ cart' = removeFromCart(cart, lastCall'.index)
           /\ cart' = RemoveAt(cart, lastCall'.index)
           /\ UNCHANGED <<otherThanCart, toast, calls>>]_vars

C5_Witness ==
    /\ lastCall.op = "updateQuantity"
    /\ lastCall.quantity = 0
    /\ lastCall.index = 0
    /\ Len(cart) = 1

(***************************************************************************)
(* Properties of the checkout.                                             *)
(***************************************************************************)
\* C6: handleCheckout with an empty customer email, or with an empty cart,
\* sends no POST and changes no state; it only emits the 'Email required'
\* notification (empty email) or the 'Cart is empty' one.
C6_RejectedCheckoutChangesNothing ==
    [][(PlaceOrderClick /\ (customerEmail = "" \/ Len(cart) = 0))
        => /\ postOrders' = postOrders
           /\ UNCHANGED <<cart, customerEmail, customerNote, loading, isCheckoutOpen,
                          isCartOpen, isAdminOpen, products, orders>>
           /\ toast' = IF customerEmail = "" THEN ToastEmailRequired
                       ELSE ToastCartEmpty]_vars

C6_Witness ==
    /\ toast = ToastCartEmpty
    /\ Len(cart) = 0
    /\ customerEmail # ""
    /\ isCheckoutOpen
    /\ ~loading
    /\ postOrders = <<>>

\* C7: at most one POST to the orders endpoint is in flight, and the loading
\* flag is true while one is.
C7_OneSubmissionInFlight ==
    /\ Len(postOrders) <= 1
    /\ postOrders # <<>> => loading

C7_Witness ==
    /\ Len(postOrders) = 1
    /\ loading
    /\ isCheckoutOpen
    /\ customerEmail # ""
    /\ Len(cart) > 0

\* C8 as claimed: when a submission fails, the cart, the customer email and
\* the customer note hold the values they had before the submission started
\* (the values of the request), the checkout view is open and the failure
\* notification is emitted, also after user actions interleaved while the
\* request was in flight.
C8_FailureRestoresSubmitted ==
    [][PostOrderFails
        => \E k \in 1..Len(postOrders) :
              /\ postOrders' = Without(postOrders, k)
              /\ cart' = postOrders[k].items
              /\ customerEmail' = postOrders[k].customer_email
              /\ customerNote' = postOrders[k].customer_note
              /\ isCheckoutOpen'
              /\ toast' = ToastOrderFailed]_vars

\* C8 as amended: the handling of a failed submission changes neither the
\* cart, the customer email, the customer note nor the visibility of the
\* checkout view, emits the failure notification and resets the loading flag.
C8_FailureChangesNothing ==
    [][PostOrderFails
        => /\ UNCHANGED <<cart, customerEmail, customerNote, isCheckoutOpen>>
           /\ toast' = ToastOrderFailed
           /\ ~loading']_vars

C8_Witness ==
    /\ toast = ToastOrderFailed
    /\ ~loading
    /\ postOrders = <<>>
    /\ Len(cart) > 0
    /\ customerEmail # ""
    /\ customerNote # ""
    /\ isCheckoutOpen

\* C9: when a submission succeeds, the cart, the customer email and the
\* customer note are empty, the checkout view is closed and the success
\* notification is emitted; the payload posted is exactly customer_email,
\* customer_note and items, the cart at the time of the submission.
C9_SuccessClears ==
    [][/\ PostOrderSucceeds
          => /\ cart' = <<>>
             /\ customerEmail' = ""
             /\ customerNote' = ""
             /\ ~isCheckoutOpen'
             /\ toast' = ToastOrderPlaced
       /\ Len(postOrders') > Len(postOrders)
          => /\ postOrders' =
                    Append(postOrders, [customer_email |-> customerEmail,
                                        customer_note |-> customerNote,
                                        items |-> cart])
             /\ Len(cart) > 0
             /\ customerEmail # ""]_vars

C9_Witness ==
    /\ toast = ToastOrderPlaced
    /\ cart = <<>>
    /\ customerEmail = ""
    /\ customerNote = ""
    /\ ~isCheckoutOpen
    /\ ~loading
    /\ postOrders = <<>>

(***************************************************************************)
(* Properties of the admin order viewer.                                   *)
(***************************************************************************)
\* C10 as claimed: whenever fetching the order list fails, an error
\* notification is emitted and the displayed order list is empty, whatever
\* it held before.
C10_FailedFetchEmptiesOrders ==
    [][FetchOrdersFails => (toast' = ToastOrdersFailed /\ orders' = <<>>)]_vars

\* C10 as amended: whenever fetching the order list fails, an error
\* notification is emitted and the displayed order list is left as it was.
C10_FailedFetchKeepsOrders ==
    [][FetchOrdersFails => (toast' = ToastOrdersFailed /\ orders' = orders)]_vars

C10_Witness ==
    /\ toast = ToastOrdersFailed
    /\ orders # <<>>
    /\ isAdminOpen

(***************************************************************************)
(* Properties of the quantities.                                           *)
(***************************************************************************)
\* C11: every line item of the cart has a quantity of at least one in every
\* state the user reaches with the product cards, the "+" and "-" buttons
\* of the cart drawer and the checkout: a line item whose quantity would
\* reach zero is removed, not kept with quantity zero.
C11_QuantitiesPositive ==
    \A i \in 1..Len(cart) : cart[i].quantity >= 1

\* The cart is empty after an addition that no order followed: its last
\* line item left through the "-" button, at quantity one.
C11_Witness ==
    /\ cart = <<>>
    /\ toast = ToastAdded(ProductB)
    /\ isCartOpen
    /\ ~loading
    /\ postOrders = <<>>

(***************************************************************************)
(* Progress of the checkout.                                               *)
(***************************************************************************)
\* C12: every submission the backend answers returns the checkout to Idle:
\* once loading is true it becomes false again, with no request left in
\* flight, and the loading flag is never true when no request is in flight.
C12_SubmissionReturnsToIdle ==
    /\ [](postOrders = <<>> => ~loading)
    /\ loading ~> (~loading /\ postOrders = <<>>)

\* A failed submission has been answered and a new one can be started.
C12_Witness ==
    /\ toast = ToastOrderFailed
    /\ ~loading
    /\ ~PlaceOrderDisabled
    /\ postOrders = <<>>
    /\ isCheckoutOpen
    /\ handleCheckoutGuard(customerEmail, cart) = NoToast

====
